---- MODULE Spec2Model ----
(***************************************************************************)
(* Block lifecycle and consensus engine of server/controllers/             *)
(* blockController.js (the later of the two versions the file holds).      *)
(*                                                                         *)
(* Every request handler is an async function: it runs without             *)
(* interruption between two awaits, and every await is a database          *)
(* operation.  One action of this model is one database operation          *)
(* together with the synchronous code that follows it up to the next       *)
(* await.  Concurrent requests interleave at these points.                 *)
(***************************************************************************)
EXTENDS Integers, Sequences, FiniteSets, TLC

VARIABLES
    blocks,   \* BlockModel collection, in insertion order; _id = index
    pool,     \* ApprovedRecordModel collection, in insertion order
    store,    \* Record Store: store[r] = status of record r
    now,      \* wall clock, in seconds (toLocaleString has second precision)
    i,        \* the loop index `i`: assigned without declaration, so one
              \* global shared by every request of the process
    rq,       \* rq[p]: the request running in slot p, its position and locals
    resp,     \* the response the last step sent: "ok" or an error; "none"
              \* when the step ended no handler
    races,    \* how many requests began while another one was in flight
    body,     \* what the response of the last step carried: the blockchain
              \* of GetChain, the waitingBlock of GetWaitingBlock
    edits,    \* how many fields of stored blocks were changed behind the
              \* controller's back
    roster    \* how many users have the role Validator: users 1..roster

vars == <<blocks, pool, store, now, i, rq, resp, races, body, edits, roster>>

----------------------------------------------------------------------------
\* Bounds of the model
MaxInFlight == 2      \* requests in flight at once
MaxRaces == 1         \* requests that begin while another one is in flight
MaxEdits == 1         \* out-of-band edits of stored blocks, SpecTamper
MaxBlocks == 4        \* documents in the block collection
MaxRecords == 2       \* records ever handed to the waiting pool, Spec
MaxRecordsSeq == 4    \* the same, SpecSeq
MaxTime == 1          \* clock values 0..MaxTime
NumValidators == 3    \* largest size of the validator roster

\* Program constants
MAX_RECORD == 2
GENESIS_BLOCK_ID == 0
\* CONSENSUS_THRESHOLD = 0.66, as the fraction ThresholdNum / ThresholdDen
ThresholdNum == 66
ThresholdDen == 100

Procs == 1..MaxInFlight
Validators == 1..NumValidators

----------------------------------------------------------------------------
\* Values

\* previousHash = "" of the genesis block
EmptyHash == <<>>
\* a field the schema leaves unset
NoHash == <<-1>>
NoId == -1

\* a digest that leaves the timestamp out
computeBlockHash_NoTimestamp(blockId, prevHash, timestamp, record) ==
    <<blockId, prevHash, record>>

\* sha256 over blockId.toString() + prevHash + timestamp + JSON.stringify(record).
\* prevHash is "" or 64 hex digits, the timestamp has a fixed width and the
\* JSON text starts with "[", so the concatenation determines the four parts;
\* the digest is modelled as injective in them.
computeBlockHash(blockId, prevHash, timestamp, record) ==
    <<blockId, prevHash, timestamp, record>>

\* A document of the block collection as createHibernateBlock creates it:
\* only records and timestamp are given, the rest are the schema's defaults.
NewBlock(records, timestamp) ==
    [blockId |-> NoId, prevHash |-> NoHash, hash |-> NoHash,
     timestamp |-> timestamp, status |-> "Hibernating", records |-> records,
     approvedBy |-> {}, rejectedBy |-> {}, v |-> 0]

\* BlockModel.find({ status: "inChain" }): the ids, in natural order
InChainIds == {b \in 1..Len(blocks) : blocks[b].status = "inChain"}
IsInChain(blk) == blk.status = "inChain"
Blockchain == SelectSeq(blocks, IsInChain)

\* records[k].status = s for k < MAX_RECORD (the callers check the length)
SetRecordStatus(records, s) ==
    [k \in 1..Len(records) |->
        IF k <= MAX_RECORD THEN [records[k] EXCEPT !.status = s] ELSE records[k]]

\* TransactionModel / SupplyChainModel .updateMany({status: from}, {status: to})
UpdateMany(st, from, to) ==
    [r \in 1..Len(st) |-> IF st[r] = from THEN to ELSE st[r]]

\* ApprovedRecordModel.deleteOne({ _id: r })
DeleteOne(pl, r) == LET keep(e) == e.id # r IN SelectSeq(pl, keep)

\* n / parseFloat(validators.length) >= CONSENSUS_THRESHOLD
ReachesThreshold(n) == n * ThresholdDen >= ThresholdNum * roster

----------------------------------------------------------------------------
\* Request slots

\* the payload of a response: the handler, whether the value is an array,
\* and the documents it holds (none for null)
NoBody == [op |-> "none", array |-> FALSE, value |-> <<>>]

Idle ==
    [op |-> "none", pc |-> "done", id |-> 0, user |-> 0, isApproved |-> FALSE,
     records |-> <<>>, record |-> <<>>, arr |-> <<>>, del |-> 0,
     v |-> 0, blockId |-> NoId, prevHash |-> NoHash, timestamp |-> 0,
     blockchain |-> <<>>]

\* a new request takes the lowest free slot
Free(p) ==
    /\ rq[p].pc = "done"
    /\ \A q \in Procs : q < p => rq[q].pc # "done"
    /\ races' = IF p > 1 THEN races + 1 ELSE races
    /\ races' <= MaxRaces

Begin(op, id, user, isApproved) ==
    [Idle EXCEPT !.op = op, !.id = id, !.user = user, !.isApproved = isApproved]

\* the handler ends with res.status(200).json(b)
Reply(p, r, b) ==
    /\ rq' = [rq EXCEPT ![p] = Idle]
    /\ resp' = r
    /\ body' = b

\* the handler ends: res.status(200).json(...) or a thrown error, with
\* nothing in the answer the model keeps
Finish(p, r) == Reply(p, r, NoBody)

\* the errors module: the class of each response
BadRequest == {"Insufficient records in this block",
               "Already rejected or approved this block"}
NotFound == {"No block with id or block has already been activated",
             "No pending block with id or block has not been activated"}
\* errors no handler throws on purpose: the server answers 500
ServerError == {"TypeError", "VersionError"}

\* no document in any collection, no request in flight
Empty ==
    /\ blocks = <<>>
    /\ pool = <<>>
    /\ store = <<>>
    /\ now = 0
    /\ i = 0
    /\ rq = [p \in Procs |-> Idle]
    /\ resp = "none"
    /\ races = 0
    /\ body = NoBody
    /\ edits = 0

\* the roster is full
Init == Empty /\ roster = NumValidators

\* the roster has any size from 1 up
InitRoster == Empty /\ roster \in 1..NumValidators

----------------------------------------------------------------------------
\* Environment

\* A record is approved elsewhere and handed to the waiting pool; the pool
\* keeps a copy of the approved record, the Record Store keeps the record with
\* the given status.
SubmitRecord(limit, status) ==
    /\ Len(store) < limit
    /\ store' = Append(store, status)
    /\ pool' = Append(pool, [id |-> Len(store) + 1, status |-> "Approved"])
    /\ resp' = "none"
    /\ body' = NoBody
    /\ UNCHANGED <<blocks, now, i, rq, races, edits, roster>>

Tick ==
    /\ now < MaxTime
    /\ now' = now + 1
    /\ resp' = "none"
    /\ body' = NoBody
    /\ UNCHANGED <<blocks, pool, store, i, rq, races, edits, roster>>

----------------------------------------------------------------------------
\* createHibernateBlock, called by getBlockchain, appendToBlockchain and
\* blockConsensus; rq[p].pc is the operation request p awaits.

\* const record = await ApprovedRecordModel.find({}), then the loop up to its
\* first deleteOne, or up to BlockModel.create when the pool is empty
createHibernateBlock(p) ==
    /\ rq[p].pc = "createHibernateBlock"
    /\ IF Len(pool) > 0
       THEN /\ i' = 0
            /\ rq' = [rq EXCEPT ![p].record = pool,
                                ![p].arr = <<pool[1]>>,
                                ![p].del = pool[1].id,
                                ![p].pc = "deleteOne"]
       ELSE /\ i' = i
            /\ rq' = [rq EXCEPT ![p].record = pool,
                                ![p].arr = <<>>,
                                ![p].timestamp = now,
                                ![p].pc = "BlockModel.create"]
    /\ resp' = "none"
    /\ body' = NoBody
    /\ UNCHANGED <<blocks, pool, store, now, races, edits, roster>>

\* await ApprovedRecordModel.deleteOne({ _id: record[i]._id }); i++ and the
\* next turn of the loop: record[i] is undefined past the end of the list and
\* record[i].records throws a TypeError
deleteOne(p) ==
    /\ rq[p].pc = "deleteOne"
    /\ pool' = DeleteOne(pool, rq[p].del)
    /\ i' = i + 1
    /\ IF i' < MAX_RECORD
       THEN IF i' + 1 > Len(rq[p].record)
            THEN Finish(p, "TypeError")
            ELSE /\ rq' = [rq EXCEPT ![p].arr = Append(@, rq[p].record[i' + 1]),
                                     ![p].del = rq[p].record[i' + 1].id]
                 /\ resp' = "none"
                 /\ body' = NoBody
       ELSE /\ rq' = [rq EXCEPT ![p].timestamp = now,
                                ![p].pc = "BlockModel.create"]
            /\ resp' = "none"
            /\ body' = NoBody
    /\ UNCHANGED <<blocks, store, now, races, edits, roster>>

\* await BlockModel.create({ records: arr, timestamp }); every caller then
\* returns and its handler answers 200
createBlock(p) ==
    /\ rq[p].pc = "BlockModel.create"
    /\ Len(blocks) < MaxBlocks
    /\ blocks' = Append(blocks, NewBlock(rq[p].arr, rq[p].timestamp))
    /\ IF rq[p].op = "getBlockchain"
       THEN Reply(p, "ok", [op |-> "getBlockchain", array |-> FALSE,
                            value |-> rq[p].blockchain])
       ELSE Finish(p, "ok")
    /\ UNCHANGED <<pool, store, now, i, races, edits, roster>>

----------------------------------------------------------------------------
\* GetChain

\* a GetChain that does not look at what find({ status: "inChain" }) returned
getBlockchain_NoLengthTest(p) ==
    /\ Free(p)
    /\ rq' = [rq EXCEPT ![p] = [Begin("getBlockchain", 0, 0, FALSE)
                EXCEPT !.pc = "createGenesisBlock", !.timestamp = now]]
    /\ resp' = "none"
    /\ body' = NoBody
    /\ UNCHANGED <<blocks, pool, store, now, i, edits, roster>>

\* let blockchain = await BlockModel.find({ status: "inChain" })
getBlockchain(p) ==
    /\ Free(p)
    /\ IF InChainIds = {}
       THEN /\ rq' = [rq EXCEPT ![p] = [Begin("getBlockchain", 0, 0, FALSE)
                        EXCEPT !.pc = "createGenesisBlock", !.timestamp = now]]
            /\ resp' = "none"
            /\ body' = NoBody
       ELSE Reply(p, "ok", [op |-> "getBlockchain", array |-> TRUE,
                            value |-> Blockchain])
    /\ UNCHANGED <<blocks, pool, store, now, i, edits, roster>>

\* await BlockModel.create({ blockId: 0, prevHash: "", hash, timestamp,
\* status: "inChain" }), with record = []
createGenesisBlock(p) ==
    /\ rq[p].pc = "createGenesisBlock"
    /\ Len(blocks) < MaxBlocks
    /\ blocks' = Append(blocks,
          [NewBlock(<<>>, rq[p].timestamp) EXCEPT
              !.blockId = GENESIS_BLOCK_ID,
              !.prevHash = EmptyHash,
              !.hash = computeBlockHash(GENESIS_BLOCK_ID, EmptyHash,
                                        rq[p].timestamp, <<>>),
              !.status = "inChain"])
    /\ rq' = [rq EXCEPT ![p].pc = "createHibernateBlock",
                        ![p].blockchain = <<blocks'[Len(blocks')]>>]
    /\ resp' = "none"
    /\ body' = NoBody
    /\ UNCHANGED <<pool, store, now, i, races, edits, roster>>

----------------------------------------------------------------------------
\* GetWaitingBlock

\* the filter { status: "Hibernating" || "Pending" }: the operands of || are
\* strings, and the first one is truthy, so the filter is
\* { status: "Hibernating" }
WaitingFilter(blk) == blk.status = "Hibernating"

\* BlockModel.findOne(filter): the first matching document in insertion
\* order, or null
waitingBlock ==
    LET found == { b \in 1..Len(blocks) : WaitingFilter(blocks[b]) }
    IN  IF found = {} THEN <<>>
        ELSE <<blocks[CHOOSE b \in found : \A c \in found : b <= c]>>

getWaitingBlock(p) ==
    /\ Free(p)
    /\ Reply(p, "ok", [op |-> "getWaitingBlock", array |-> FALSE,
                       value |-> waitingBlock])
    /\ UNCHANGED <<blocks, pool, store, now, i, edits, roster>>

----------------------------------------------------------------------------
\* ActivateBlock

\* a comparison that lets a batch short of MAX_RECORD through
isMaxRecord_AtMost(blk) == Len(blk.records) <= MAX_RECORD

\* selectedBlock.records.length === MAX_RECORD
isMaxRecord(blk) == Len(blk.records) = MAX_RECORD

\* findOneAndUpdate({ _id: blockID }, { status: "Pending", timestamp })
ActivateUpdate(blk, timestamp) ==
    [blk EXCEPT !.status = "Pending", !.timestamp = timestamp]

\* await BlockModel.findOne({ _id: blockID, status: "Hibernating" }) and the
\* two checks on what it returned
activateBlock(p, id) ==
    /\ Free(p)
    /\ id \in 1..Len(blocks)
    /\ IF blocks[id].status # "Hibernating"
       THEN Finish(p, "No block with id or block has already been activated")
       ELSE IF ~isMaxRecord(blocks[id])
       THEN Finish(p, "Insufficient records in this block")
       ELSE /\ rq' = [rq EXCEPT ![p] = [Begin("activateBlock", id, 0, FALSE)
                        EXCEPT !.pc = "activate.findOneAndUpdate",
                               !.timestamp = now]]
            /\ resp' = "none"
            /\ body' = NoBody
    /\ UNCHANGED <<blocks, pool, store, now, i, edits, roster>>

activateUpdate(p) ==
    /\ rq[p].pc = "activate.findOneAndUpdate"
    /\ blocks' = [blocks EXCEPT ![rq[p].id] = ActivateUpdate(@, rq[p].timestamp)]
    /\ Finish(p, "ok")
    /\ UNCHANGED <<pool, store, now, i, races, edits, roster>>

----------------------------------------------------------------------------
\* CastVote

\* a prior-vote check that forgets rejectedBy
hasApproveBefore_ApprovedOnly(blk, username) == username \in blk.approvedBy

\* { $or: [{ approvedBy: username }, { rejectedBy: username }] }
hasApproveBefore(blk, username) ==
    username \in blk.approvedBy \/ username \in blk.rejectedBy

\* a filter on _id alone
VoteFilter_IdOnly(blk) == TRUE

\* the filter { _id: blockID, status: "Pending" } of the vote's update
VoteFilter(blk) == blk.status = "Pending"

\* a $addToSet with the two branches exchanged
AddToSet_Swapped(blk, username, isApproved) ==
    IF isApproved
    THEN [blk EXCEPT !.rejectedBy = @ \cup {username}]
    ELSE [blk EXCEPT !.approvedBy = @ \cup {username}]

\* $addToSet: isApproved ? { approvedBy: username } : { rejectedBy: username }
AddToSet(blk, username, isApproved) ==
    IF isApproved
    THEN [blk EXCEPT !.approvedBy = @ \cup {username}]
    ELSE [blk EXCEPT !.rejectedBy = @ \cup {username}]

\* await BlockModel.findOne(... voted before ...)
approveBlock(p, id, username, isApproved) ==
    /\ username \in 1..roster
    /\ Free(p)
    /\ id \in 1..Len(blocks)
    /\ IF hasApproveBefore(blocks[id], username)
       THEN Finish(p, "Already rejected or approved this block")
       ELSE /\ rq' = [rq EXCEPT ![p] =
                        [Begin("approveBlock", id, username, isApproved)
                            EXCEPT !.pc = "approve.findOneAndUpdate"]]
            /\ resp' = "none"
            /\ body' = NoBody
    /\ UNCHANGED <<blocks, pool, store, now, i, edits, roster>>

\* await BlockModel.findOneAndUpdate({ _id, status: "Pending" }, $addToSet),
\* then blockConsensus up to its first write: the document returned has
\* status Pending, the roster is read and the two fractions are compared
approveUpdate(p) ==
    /\ rq[p].pc = "approve.findOneAndUpdate"
    /\ LET id == rq[p].id
           block == AddToSet(blocks[id], rq[p].user, rq[p].isApproved)
       IN IF ~VoteFilter(blocks[id])
          THEN /\ Finish(p, "No pending block with id or block has not been activated")
               /\ blocks' = blocks
          ELSE /\ blocks' = [blocks EXCEPT ![id] = block]
               /\ IF ReachesThreshold(Cardinality(block.approvedBy))
                  THEN /\ rq' = [rq EXCEPT ![p].pc = "consensus.Approved"]
                       /\ resp' = "none"
                       /\ body' = NoBody
                  ELSE IF ReachesThreshold(Cardinality(block.rejectedBy))
                  THEN /\ rq' = [rq EXCEPT ![p].pc = "consensus.Rejected",
                                           ![p].timestamp = now]
                       /\ resp' = "none"
                       /\ body' = NoBody
                  ELSE Finish(p, "ok")
    /\ UNCHANGED <<pool, store, now, i, races, edits, roster>>

----------------------------------------------------------------------------
\* blockConsensus and appendToBlockchain, the rest of CastVote

\* block.save() after markModified("records"): Mongoose sets the whole array
\* and, with the schema's default versionKey, writes only if the stored __v
\* is the one the document was loaded with, and increments it
SaveMatches(blk, v) == blk.v = v
Save(blk, records) == [blk EXCEPT !.records = records, !.v = @ + 1]

\* findOneAndUpdate({ _id: id }, { status: "Approved" }, { new: true })
consensusApproved(p) ==
    /\ rq[p].pc = "consensus.Approved"
    /\ blocks' = [blocks EXCEPT ![rq[p].id].status = "Approved"]
    /\ rq' = [rq EXCEPT ![p].records = blocks[rq[p].id].records,
                        ![p].v = blocks[rq[p].id].v,
                        ![p].pc = "updateRecordsStatus"]
    /\ resp' = "none"
    /\ body' = NoBody
    /\ UNCHANGED <<pool, store, now, i, races, edits, roster>>

\* the updateMany calls of updateRecordsStatus / rejectRecords, then the loop
\* of updateRecordsStatusInBlock / rejectRecordsStatusInBlock over the local
\* document: block.records[i] is undefined past the end of the list
PropagateStatus(p, from, to, next) ==
    /\ store' = UpdateMany(store, from, to)
    /\ IF Len(rq[p].records) < MAX_RECORD
       THEN /\ i' = Len(rq[p].records)
            /\ Finish(p, "TypeError")
       ELSE /\ i' = MAX_RECORD
            /\ rq' = [rq EXCEPT ![p].records = SetRecordStatus(@, to),
                                ![p].pc = next]
            /\ resp' = "none"
            /\ body' = NoBody
    /\ UNCHANGED <<blocks, pool, now, races, edits, roster>>

updateRecordsStatus(p) ==
    /\ rq[p].pc = "updateRecordsStatus"
    /\ PropagateStatus(p, "inBlock", "inChain", "Approved.save")

\* await block.save() in updateRecordsStatusInBlock
updateRecordsStatusInBlock(p) ==
    /\ rq[p].pc = "Approved.save"
    /\ IF SaveMatches(blocks[rq[p].id], rq[p].v)
       THEN /\ blocks' = [blocks EXCEPT ![rq[p].id] = Save(@, rq[p].records)]
            /\ rq' = [rq EXCEPT ![p].pc = "appendToBlockchain"]
            /\ resp' = "none"
            /\ body' = NoBody
       ELSE /\ blocks' = blocks
            /\ Finish(p, "VersionError")
    /\ UNCHANGED <<pool, store, now, i, races, edits, roster>>

\* the documents BlockModel.find({ status: "inChain" }).sort({ blockId: -1 })
\* may return first: those with the largest blockId
Newest == {b \in InChainIds :
              \A c \in InChainIds : blocks[c].blockId <= blocks[b].blockId}

\* await BlockModel.find({ status: "inChain" }).sort({ blockId: -1 }), then
\* blockId, prevHash and timestamp are computed from blockchain[0]
appendToBlockchain(p) ==
    /\ rq[p].pc = "appendToBlockchain"
    /\ IF InChainIds = {}
       THEN Finish(p, "TypeError")
       ELSE /\ \E b \in Newest :
                 rq' = [rq EXCEPT ![p].blockId = blocks[b].blockId + 1,
                                  ![p].prevHash = blocks[b].hash,
                                  ![p].timestamp = now,
                                  ![p].pc = "append.findOneAndUpdate"]
            /\ resp' = "none"
            /\ body' = NoBody
    /\ UNCHANGED <<blocks, pool, store, now, i, races, edits, roster>>

\* the filter { _id: id, status: "Approved" } of the commit
AppendFilter(blk) == blk.status = "Approved"

\* { blockId, prevHash, hash: computeBlockHash(...), timestamp, status: "inChain" }
AppendUpdate(blk, blockId, prevHash, timestamp, records) ==
    [blk EXCEPT !.blockId = blockId,
                !.prevHash = prevHash,
                !.hash = computeBlockHash(blockId, prevHash, timestamp, records),
                !.timestamp = timestamp,
                !.status = "inChain"]

\* await BlockModel.findOneAndUpdate({ _id: id, status: "Approved" }, ...);
\* createHibernateBlock follows whether or not a document matched
appendUpdate(p) ==
    /\ rq[p].pc = "append.findOneAndUpdate"
    /\ blocks' = [blocks EXCEPT ![rq[p].id] =
                    IF AppendFilter(@)
                    THEN AppendUpdate(@, rq[p].blockId, rq[p].prevHash,
                                      rq[p].timestamp, rq[p].records)
                    ELSE @]
    /\ rq' = [rq EXCEPT ![p].pc = "createHibernateBlock"]
    /\ resp' = "none"
    /\ body' = NoBody
    /\ UNCHANGED <<pool, store, now, i, races, edits, roster>>

\* findOneAndUpdate({ _id: id }, { status: "Rejected", timestamp }, { new: true })
consensusRejected(p) ==
    /\ rq[p].pc = "consensus.Rejected"
    /\ blocks' = [blocks EXCEPT ![rq[p].id].status = "Rejected",
                                ![rq[p].id].timestamp = rq[p].timestamp]
    /\ rq' = [rq EXCEPT ![p].records = blocks[rq[p].id].records,
                        ![p].v = blocks[rq[p].id].v,
                        ![p].pc = "rejectRecords"]
    /\ resp' = "none"
    /\ body' = NoBody
    /\ UNCHANGED <<pool, store, now, i, races, edits, roster>>

rejectRecords(p) ==
    /\ rq[p].pc = "rejectRecords"
    /\ PropagateStatus(p, "inBlock", "Rejected", "Rejected.save")

\* await block.save() in rejectRecordsStatusInBlock
rejectRecordsStatusInBlock(p) ==
    /\ rq[p].pc = "Rejected.save"
    /\ IF SaveMatches(blocks[rq[p].id], rq[p].v)
       THEN /\ blocks' = [blocks EXCEPT ![rq[p].id] = Save(@, rq[p].records)]
            /\ rq' = [rq EXCEPT ![p].pc = "createHibernateBlock"]
            /\ resp' = "none"
            /\ body' = NoBody
       ELSE /\ blocks' = blocks
            /\ Finish(p, "VersionError")
    /\ UNCHANGED <<pool, store, now, i, races, edits, roster>>

----------------------------------------------------------------------------
\* ValidateChain

\* the records of the model carry no amount field, so the loop finds nothing
\* to hand to checkTransactionValidity
validateBlockRecords(records) == TRUE

\* the body of the loop of validateBlocks for blocks[k]
ValidAt(chain, k) ==
    /\ chain[k].hash = computeBlockHash(chain[k].blockId, chain[k].prevHash,
                                        chain[k].timestamp, chain[k].records)
    /\ IF k = 1 THEN chain[k].prevHash = EmptyHash
                ELSE chain[k].prevHash = chain[k - 1].hash
    /\ validateBlockRecords(chain[k].records)

validateBlocks(chain) == \A k \in 1..Len(chain) : ValidAt(chain, k)

\* const blockchain = await BlockModel.find({ status: "inChain" })
validateBlockchain(p) ==
    /\ Free(p)
    /\ Finish(p, IF validateBlocks(Blockchain) THEN "valid" ELSE "invalid")
    /\ UNCHANGED <<blocks, pool, store, now, i, edits, roster>>

----------------------------------------------------------------------------
\* one step of the request in slot p
Step(p) ==
    \/ getBlockchain(p)
    \/ createGenesisBlock(p)
    \/ createHibernateBlock(p)
    \/ deleteOne(p)
    \/ createBlock(p)
    \/ \E id \in 1..MaxBlocks : activateBlock(p, id)
    \/ activateUpdate(p)
    \/ \E id \in 1..MaxBlocks, u \in Validators, a \in BOOLEAN :
          approveBlock(p, id, u, a)
    \/ approveUpdate(p)
    \/ consensusApproved(p)
    \/ updateRecordsStatus(p)
    \/ updateRecordsStatusInBlock(p)
    \/ appendToBlockchain(p)
    \/ appendUpdate(p)
    \/ consensusRejected(p)
    \/ rejectRecords(p)
    \/ rejectRecordsStatusInBlock(p)
    \/ validateBlockchain(p)
    \/ getWaitingBlock(p)

\* requests interleave at their awaits
Next == SubmitRecord(MaxRecords, "Approved") \/ Tick \/ \E p \in Procs : Step(p)

Spec == Init /\ [][Next]_vars

\* the fields of a block document an out-of-band edit can change
Fields == {"blockId", "prevHash", "hash", "timestamp", "records",
           "approvedBy", "rejectedBy"}

\* the values an edit of field f of blk can leave there
TamperValues(blk, f) ==
    LET hashes == {EmptyHash, NoHash}
                     \cup {blocks[c].hash : c \in 1..Len(blocks)}
        values ==
           CASE f = "blockId"    -> 0..MaxBlocks
             [] f = "prevHash"   -> hashes
             [] f = "hash"       -> hashes
             [] f = "timestamp"  -> 0..MaxTime
             [] f = "records"    ->
                   {<<>>, <<[id |-> 1, status |-> "inChain"]>>,
                    SetRecordStatus(blk.records, "Rejected")}
             [] f = "approvedBy" -> SUBSET Validators
             [] f = "rejectedBy" -> SUBSET Validators
    IN  values \ {blk[f]}

\* Somebody with access to the database changes field f of inChain block b
\* while the chain validates.
Tamper(b, f, val) ==
    /\ edits < MaxEdits
    /\ b \in InChainIds
    /\ validateBlocks(Blockchain)
    /\ val \in TamperValues(blocks[b], f)
    /\ blocks' = [blocks EXCEPT ![b] = [@ EXCEPT ![f] = val]]
    /\ edits' = edits + 1
    /\ resp' = "none"
    /\ body' = NoBody
    /\ UNCHANGED <<pool, store, now, i, rq, races, roster>>

\* field f of inChain block b is edited
Tampered(b, f) ==
    /\ b \in InChainIds
    /\ \E val \in TamperValues(blocks[b], f) : Tamper(b, f, val)

\* one request at a time: each handler runs to its end before the next begins
NextSeq == SubmitRecord(MaxRecordsSeq, "Approved") \/ Tick \/ Step(1)

SpecSeq == Init /\ [][NextSeq]_vars

\* one request at a time, over a Record Store that marks a record inBlock
\* when it hands it to the waiting pool: the status updateRecordsStatus and
\* rejectRecords look for
NextStore == SubmitRecord(MaxRecordsSeq, "inBlock") \/ Tick \/ Step(1)

SpecStore == Init /\ [][NextStore]_vars

\* one request at a time over a roster of any size; a request that has begun
\* is run to its end: Node's event loop resumes every handler whose awaited
\* operation has completed
NextLive == SubmitRecord(MaxRecords, "Approved") \/ Tick \/ Step(1)

SpecLive == InitRoster /\ [][NextLive]_vars /\ WF_vars(Step(1))

\* one request at a time, and one out-of-band edit of an inChain block
NextTamper ==
    \/ SubmitRecord(MaxRecords, "Approved")
    \/ Tick
    \/ Step(1)
    \/ \E b \in 1..MaxBlocks, f \in Fields : Tampered(b, f)

SpecTamper == Init /\ [][NextTamper]_vars

----------------------------------------------------------------------------
\* Properties

BlockIds == 1..Len(blocks)
StagingIds == {b \in BlockIds : blocks[b].status \in {"Hibernating", "Pending"}}
HibernatingIds == {b \in BlockIds : blocks[b].status = "Hibernating"}
SequenceNumbers == {blocks[b].blockId : b \in InChainIds}

\* C1: no two inChain blocks share a sequenceNumber, and the sequenceNumbers
\* of the inChain blocks are exactly 0..k (contiguous from 0), in every
\* state any interleaving of requests reaches.
C1_UniqueContiguous ==
    /\ \A a, b \in InChainIds : a # b => blocks[a].blockId # blocks[b].blockId
    /\ SequenceNumbers = 0..(Cardinality(InChainIds) - 1)

\* C2: every inChain block with sequenceNumber n > 0 has previousHash equal
\* to the stored hash of the inChain block with sequenceNumber n - 1: there
\* is such a block, and whichever inChain block carries n - 1 has that hash.
C2_Linked ==
    \A b \in InChainIds :
        blocks[b].blockId > 0 =>
            /\ \E c \in InChainIds : blocks[c].blockId = blocks[b].blockId - 1
            /\ \A c \in InChainIds :
                  blocks[c].blockId = blocks[b].blockId - 1
                      => blocks[b].prevHash = blocks[c].hash

\* C3: at most one block is Hibernating or Pending, in every state any
\* interleaving of requests reaches.
C3_SingleStagingSlot == Cardinality(StagingIds) <= 1

\* the edges of the block state machine
Edges == {<<"Hibernating", "Pending">>, <<"Pending", "Approved">>,
          <<"Approved", "inChain">>, <<"Pending", "Rejected">>}

\* C4: a block's status changes only along Hibernating->Pending,
\* Pending->Approved, Approved->inChain and Pending->Rejected, in every
\* interleaving; so a Rejected or inChain block never changes status again.
C4_OnlyEdges ==
    [][\A b \in BlockIds :
          blocks'[b].status # blocks[b].status
              => <<blocks[b].status, blocks'[b].status>> \in Edges]_vars

\* C5: append-only chain: a block that has status inChain keeps its
\* sequenceNumber, previousHash, hash, timestamp and records in the next state.
C5_AppendOnly ==
    [][\A b \in BlockIds :
          blocks[b].status = "inChain"
              => /\ blocks'[b].blockId = blocks[b].blockId
                 /\ blocks'[b].prevHash = blocks[b].prevHash
                 /\ blocks'[b].hash = blocks[b].hash
                 /\ blocks'[b].timestamp = blocks[b].timestamp
                 /\ blocks'[b].records = blocks[b].records]_vars

\* C6: ActivateBlock on a Hibernating block whose record count is not
\* MAX_RECORD answers BadRequest and changes no block; and a block's status
\* becomes Pending only in a step where it holds MAX_RECORD records.
C6_ActivationNeedsFullBatch ==
    [][/\ \A p \in Procs, id \in BlockIds :
             ( /\ blocks[id].status = "Hibernating"
               /\ Len(blocks[id].records) # MAX_RECORD
               /\ activateBlock(p, id) )
                 => /\ resp' \in BadRequest
                    /\ rq'[p] = Idle
                    /\ blocks' = blocks
       /\ \A b \in BlockIds :
             (blocks[b].status # "Pending" /\ blocks'[b].status = "Pending")
                 => Len(blocks'[b].records) = MAX_RECORD]_vars

\* C6 witness: an activation was refused for a Hibernating block short of a
\* full batch, after a full block had been activated and committed.
C6_Witness ==
    /\ resp = "Insufficient records in this block"
    /\ \E b \in HibernatingIds : Len(blocks[b].records) # MAX_RECORD
    /\ \E c \in InChainIds : Len(blocks[c].records) = MAX_RECORD

\* C7: a CastVote by a validator who already appears in approvedBy or
\* rejectedBy of the block, in either direction, answers BadRequest and
\* leaves every block (approvedBy, rejectedBy, status) and every record
\* status unchanged.
C7_DuplicateVoteRefused ==
    [][\A p \in Procs, id \in BlockIds, u \in Validators, a \in BOOLEAN :
          ( /\ u \in blocks[id].approvedBy \cup blocks[id].rejectedBy
            /\ approveBlock(p, id, u, a) )
              => /\ resp' \in BadRequest
                 /\ rq'[p] = Idle
                 /\ blocks' = blocks
                 /\ store' = store]_vars

\* C7 witness: a second vote was refused on a block holding a reject vote.
C7_Witness ==
    /\ resp = "Already rejected or approved this block"
    /\ \E b \in BlockIds : blocks[b].rejectedBy # {}

\* C8: approvedBy and rejectedBy of every block are disjoint, also when one
\* validator sends an approve and a reject on the same block concurrently.
C8_VotesDisjoint ==
    \A b \in BlockIds : blocks[b].approvedBy \cap blocks[b].rejectedBy = {}

\* the step in which the vote's conditional write finds block rq[p].id in a
\* status other than Pending
VoteOnNonPending(p) ==
    /\ approveUpdate(p)
    /\ blocks[rq[p].id].status # "Pending"

\* C9 as stated: CastVote on an existing block whose status is not Pending
\* fails with a BadRequest error and changes no block or record field.
C9_NonPendingBadRequest ==
    [][\A p \in Procs :
          VoteOnNonPending(p)
              => /\ resp' \in BadRequest
                 /\ blocks' = blocks
                 /\ store' = store]_vars

\* C9 as amended: the prior-vote check of a CastVote changes nothing, and a
\* CastVote whose write finds the block not Pending (Hibernating, Approved,
\* inChain or Rejected) fails with a NotFound error, adds the caller to
\* neither approvedBy nor rejectedBy and changes no block or record field.
C9_NonPendingNotFound ==
    [][/\ \A p \in Procs :
             VoteOnNonPending(p)
                 => /\ resp' \in NotFound
                    /\ rq'[p] = Idle
                    /\ blocks' = blocks
                    /\ store' = store
                    /\ pool' = pool
       /\ \/ blocks' = blocks /\ store' = store
          \/ \A p \in Procs, id \in BlockIds, u \in Validators, a \in BOOLEAN :
                ~approveBlock(p, id, u, a)]_vars

\* C9 witness: a vote was refused as NotFound while no block is Pending and
\* some block is already resolved.
C9_Witness ==
    /\ resp = "No pending block with id or block has not been activated"
    /\ \A b \in BlockIds : blocks[b].status # "Pending"
    /\ \E b \in BlockIds : blocks[b].status \in {"Rejected", "inChain"}
                           /\ blocks[b].records # <<>>

\* request p is a CastVote that crossed the approve threshold
InApprovePath(p) ==
    /\ rq[p].op = "approveBlock"
    /\ \/ rq[p].pc \in {"consensus.Approved", "updateRecordsStatus",
                        "Approved.save", "appendToBlockchain",
                        "append.findOneAndUpdate"}
       \/ rq[p].blockId # NoId

\* C10: when a CastVote whose approve vote crossed the threshold completes,
\* the block is inChain with sequenceNumber = largest other inChain
\* sequenceNumber + 1 and previousHash = that block's hash, every record
\* embedded in it has status inChain, and exactly one Hibernating block
\* exists (new: the staging slot held the voted block until then).
C10_CommitOnApproveThreshold ==
    [][\A p \in Procs :
          (InApprovePath(p) /\ rq'[p] = Idle)
              => LET id == rq[p].id
                     others == {c \in 1..Len(blocks') :
                                   c # id /\ blocks'[c].status = "inChain"}
                 IN /\ blocks'[id].status = "inChain"
                    /\ \E c \in others :
                          /\ \A d \in others :
                                blocks'[d].blockId <= blocks'[c].blockId
                          /\ blocks'[id].blockId = blocks'[c].blockId + 1
                          /\ blocks'[id].prevHash = blocks'[c].hash
                    /\ \A k \in 1..Len(blocks'[id].records) :
                          blocks'[id].records[k].status = "inChain"
                    /\ Cardinality({b \in 1..Len(blocks') :
                          blocks'[b].status = "Hibernating"}) = 1]_vars

\* request p is a CastVote that crossed the reject threshold
InRejectPath(p) ==
    /\ rq[p].op = "approveBlock"
    /\ rq[p].blockId = NoId
    /\ rq[p].pc \in {"consensus.Rejected", "rejectRecords", "Rejected.save",
                     "createHibernateBlock", "deleteOne", "BlockModel.create"}

\* C11: a CastVote whose reject vote crossed the threshold changes no inChain
\* block, and when it completes the block is Rejected, every record embedded
\* in it has status Rejected, and exactly one Hibernating block exists (new:
\* the staging slot held the voted block until then).
C11_RejectOnRejectThreshold ==
    [][\A p \in Procs :
          InRejectPath(p)
              => /\ Blockchain' = Blockchain
                 /\ rq'[p] = Idle
                      => LET id == rq[p].id
                         IN /\ blocks'[id].status = "Rejected"
                            /\ \A k \in 1..Len(blocks'[id].records) :
                                  blocks'[id].records[k].status = "Rejected"
                            /\ Cardinality({b \in 1..Len(blocks') :
                                  blocks'[b].status = "Hibernating"}) = 1]_vars

\* request p is the GetChain that found no inChain block
InBootstrap(p) ==
    /\ rq[p].op = "getBlockchain"
    /\ rq[p].pc # "done"

\* C12: when the GetChain that began on a store with no blocks completes,
\* exactly two blocks exist: the genesis block (inChain, blockId 0, empty
\* prevHash, no records) and one Hibernating block; and in every reachable
\* state every inChain block with blockId 0 has an empty prevHash.
C12_Bootstrap ==
    /\ [](\A b \in InChainIds :
             blocks[b].blockId = GENESIS_BLOCK_ID
                 => blocks[b].prevHash = EmptyHash)
    /\ [][\A p \in Procs :
             (InBootstrap(p) /\ rq'[p] = Idle /\ Len(blocks) <= 1)
                 => /\ Len(blocks') = 2
                    /\ blocks'[1].status = "inChain"
                    /\ blocks'[1].blockId = GENESIS_BLOCK_ID
                    /\ blocks'[1].prevHash = EmptyHash
                    /\ blocks'[1].records = <<>>
                    /\ blocks'[2].status = "Hibernating"]_vars

\* C13: a GetChain that finds an inChain block answers in that one step with
\* the inChain blocks, creates no block and changes no block and no record;
\* when the step before it was such a GetChain too, both answers are equal.
C13_GetChainIdempotent ==
    [][\A p \in Procs :
          (InChainIds # {} /\ getBlockchain(p))
              => /\ blocks' = blocks
                 /\ store' = store
                 /\ pool' = pool
                 /\ rq'[p] = Idle
                 /\ resp' = "ok"
                 /\ body'.op = "getBlockchain"
                 /\ body'.value = Blockchain
                 /\ (body.op = "getBlockchain" /\ body.array)
                        => body' = body]_vars

\* a GetChain has answered with a chain that holds a committed block
C13_Witness ==
    /\ resp = "ok"
    /\ body.op = "getBlockchain"
    /\ body.array
    /\ Len(body.value) >= 2
    /\ body.value[2].records # <<>>

\* C14: in every reachable state ValidateChain would answer true: every
\* inChain block's hash is computeBlockHash of its own blockId, prevHash,
\* timestamp and records, the first inChain block has an empty prevHash, and
\* every later one's prevHash is the hash of the inChain block before it.
C14_ChainValid ==
    /\ validateBlocks(Blockchain)
    /\ \A k \in 1..Len(Blockchain) :
          /\ Blockchain[k].hash =
                computeBlockHash(Blockchain[k].blockId, Blockchain[k].prevHash,
                                 Blockchain[k].timestamp, Blockchain[k].records)
          /\ k = 1 => Blockchain[k].prevHash = EmptyHash
          /\ k > 1 => Blockchain[k].prevHash = Blockchain[k - 1].hash

\* C15 as stated: from a chain that validates, an edit of any one field of
\* an inChain block (blockId, prevHash, hash, timestamp, records, approvedBy,
\* rejectedBy) leaves a chain on which ValidateChain answers false.
C15_AnyFieldDetected ==
    [][\A b \in InChainIds, f \in Fields :
          Tampered(b, f) => ~validateBlocks(Blockchain')]_vars

\* the fields computeBlockHash or validateBlocks read
HashedFields == {"blockId", "prevHash", "hash", "timestamp", "records"}

\* C15 amended: from a chain that validates, an edit of blockId, prevHash,
\* hash, timestamp or records of an inChain block leaves a chain on which
\* ValidateChain answers false.
C15_HashedFieldDetected ==
    [][\A b \in InChainIds, f \in HashedFields :
          Tampered(b, f) => ~validateBlocks(Blockchain')]_vars

\* a committed block that holds records was edited and does not hash to its
\* stored hash any more
C15_Witness ==
    /\ edits = 1
    /\ ~validateBlocks(Blockchain)
    /\ \E b \in InChainIds :
          /\ blocks[b].records # <<>>
          /\ Cardinality(blocks[b].approvedBy) >= 2
          /\ blocks[b].hash # computeBlockHash(blocks[b].blockId,
                 blocks[b].prevHash, blocks[b].timestamp, blocks[b].records)

\* C16: GetWaitingBlock answers with a block that is Hibernating or Pending
\* whenever one exists, and with null only when none exists.
C16_WaitingBlockReturned ==
    body.op = "getWaitingBlock"
        => IF StagingIds = {}
           THEN body.value = <<>>
           ELSE \E b \in StagingIds : body.value = <<blocks[b]>>

\* the two vote sets of block id once request p's vote is added
VotedApprove(p) ==
    blocks[rq[p].id].approvedBy
        \cup (IF rq[p].isApproved THEN {rq[p].user} ELSE {})
VotedReject(p) ==
    blocks[rq[p].id].rejectedBy
        \cup (IF rq[p].isApproved THEN {} ELSE {rq[p].user})

\* C17: the write of a vote on a Pending block after which both fractions
\* are below 0.66 ends the CastVote with 200; the block stays Pending, its
\* approvedBy (approve) or rejectedBy (reject) gains the voter, and no other
\* field of any block, no record and no pool entry changes.
C17_VoteOnlyRecorded ==
    [][\A p \in Procs :
          ( /\ rq[p].pc = "approve.findOneAndUpdate"
            /\ blocks[rq[p].id].status = "Pending"
            /\ Cardinality(VotedApprove(p)) * ThresholdDen
                  < ThresholdNum * roster
            /\ Cardinality(VotedReject(p)) * ThresholdDen
                  < ThresholdNum * roster
            /\ approveUpdate(p) )
              => /\ blocks' = [blocks EXCEPT
                       ![rq[p].id].approvedBy = VotedApprove(p),
                       ![rq[p].id].rejectedBy = VotedReject(p)]
                 /\ blocks'[rq[p].id].status = "Pending"
                 /\ store' = store
                 /\ pool' = pool
                 /\ rq'[p] = Idle
                 /\ resp' = "ok"]_vars

\* a vote was recorded and nothing else happened: no request is in flight,
\* the last answer was 200 and a Pending block holds exactly one vote
C17_Witness ==
    /\ resp = "ok"
    /\ body = NoBody
    /\ \A p \in Procs : rq[p] = Idle
    /\ \E b \in BlockIds :
          /\ blocks[b].status = "Pending"
          /\ Cardinality(blocks[b].approvedBy \cup blocks[b].rejectedBy) = 1

\* C18: whenever no CastVote is in flight, no Pending block has an approve
\* or a reject fraction of 0.66 or more.
C18_NoPendingPastThreshold ==
    (\A p \in Procs : rq[p].op # "approveBlock")
        => \A b \in BlockIds :
              blocks[b].status = "Pending"
                  => /\ ~ReachesThreshold(Cardinality(blocks[b].approvedBy))
                     /\ ~ReachesThreshold(Cardinality(blocks[b].rejectedBy))

\* the blocks that embed record r of the Record Store
EmbeddedIn(r) ==
    {b \in BlockIds : \E k \in 1..Len(blocks[b].records) :
                         blocks[b].records[k].id = r}

\* C19: in every reachable state a record has status inChain only if the
\* block embedding it is inChain, and status Rejected only if the block
\* embedding it is Rejected, both for the copy embedded in the block and for
\* the record in the Record Store.
C19_RecordLagsBlock ==
    /\ \A b \in BlockIds : \A k \in 1..Len(blocks[b].records) :
          /\ blocks[b].records[k].status = "inChain"
                => blocks[b].status = "inChain"
          /\ blocks[b].records[k].status = "Rejected"
                => blocks[b].status = "Rejected"
    /\ \A r \in 1..Len(store) :
          /\ store[r] = "inChain"
                => \E b \in EmbeddedIn(r) : blocks[b].status = "inChain"
          /\ store[r] = "Rejected"
                => \E b \in EmbeddedIn(r) : blocks[b].status = "Rejected"

\* the records of the Record Store whose status a step changes
Changed == {r \in 1..Len(store) : store'[r] # store[r]}

\* the records embedded in block b
EmbeddedIds(b) == {blocks[b].records[k].id : k \in 1..Len(blocks[b].records)}

\* C20: the step of a CastVote that propagates the commit (the reject) of
\* its block to the Record Store changes the status of exactly the records
\* embedded in that block, to inChain (to Rejected).
C20_ExactlyEmbeddedChange ==
    [][\A p \in Procs :
          /\ updateRecordsStatus(p)
                => /\ Changed = EmbeddedIds(rq[p].id)
                   /\ \A r \in Changed : store'[r] = "inChain"
          /\ rejectRecords(p)
                => /\ Changed = EmbeddedIds(rq[p].id)
                   /\ \A r \in Changed : store'[r] = "Rejected"]_vars

\* request p is inside createHibernateBlock
InStaging(p) ==
    rq[p].pc \in {"createHibernateBlock", "deleteOne", "BlockModel.create"}

\* the ids of a list of pooled records
Ids(records) == {records[k].id : k \in 1..Len(records)}

\* how many records a staging step that found n waiting ones should take
Batch(n) == IF n < MAX_RECORD THEN n ELSE MAX_RECORD

\* C21: no step of createHibernateBlock ends its request with an error; the
\* block it creates is Hibernating and holds the first min(MAX_RECORD, n) of
\* the n records it found waiting, those records are no longer in the pool
\* and the other ones it found still are; and no block ever holds more than
\* MAX_RECORD records.
C21_StagingTakesBatch ==
    /\ [](\A b \in BlockIds : Len(blocks[b].records) <= MAX_RECORD)
    /\ [][\A p \in Procs :
             InStaging(p)
                 => /\ resp' \notin ServerError
                    /\ createBlock(p)
                         => LET found == rq[p].record
                                taken == SubSeq(found, 1, Batch(Len(found)))
                                block == blocks'[Len(blocks')]
                            IN /\ block.status = "Hibernating"
                               /\ block.records = taken
                               /\ Ids(pool') \cap Ids(taken) = {}
                               /\ Ids(found) \ Ids(taken) \subseteq Ids(pool')
                  ]_vars

\* C22: in every reachable state no record is embedded in two different
\* blocks.
C22_RecordInOneBlock ==
    \A r \in 1..Len(store) : Cardinality(EmbeddedIn(r)) <= 1

\* every validator of the roster has voted on block b
AllVoted(b) == 1..roster \subseteq blocks[b].approvedBy \cup blocks[b].rejectedBy

\* C23: a Pending block on which every validator of the roster has voted
\* eventually is inChain or Rejected.
C23_VotedBlockResolves ==
    \A b \in 1..MaxBlocks :
        (b \in BlockIds /\ blocks[b].status = "Pending" /\ AllVoted(b))
            ~> (b \in BlockIds /\ blocks[b].status \in {"inChain", "Rejected"})

====
